---- MODULE Spec2Model ----
(***************************************************************************)
(* Model of the depthimage_to_pointcloud2 node.                            *)
(*                                                                         *)
(*   Depthimage2Pointcloud2  (src/src/depthimage_to_pointcloud2_node.cpp)  *)
(*       the three subscription callbacks infoCb, imageCb and depthCb and  *)
(*       the members they read and write;                                  *)
(*   convert<T>  (include/depthimage_to_pointcloud2/depth_conversions.hpp) *)
(*       the stride-2 projection loop, one PointRecord per sampled pixel.  *)
(*                                                                         *)
(* Numbers.  A float or double is modelled by an integer count of 1/Scale  *)
(* (fixed point, exact on every value the model draws); rounding of the    *)
(* binary formats is not modelled.  NaN is a value of its own that every   *)
(* arithmetic operator propagates.  The rgb field of a point is modelled   *)
(* by its 32-bit pattern, because the code stores an integer's bits there. *)
(***************************************************************************)
EXTENDS Integers, Sequences, FiniteSets, TLC

VARIABLES
    range_max,      \* member range_max (parameter, read once in the constructor)
    use_quiet_nan,  \* member use_quiet_nan
    colorful,       \* member colorful: whether imageCb is subscribed at all
    g_cam_info,     \* member g_cam_info: Null or the last CameraInfo message
    cv_ptr,         \* member cv_ptr: Null or the last converted color image
    crashed,        \* the process died inside a callback
    event,          \* which callback ran last: "init", "info", "image", "depth"
    frame,          \* <<>> or <<the depth message the last depthCb was given>>
    published,      \* the messages the last callback published: <<>> or <<cloud>>
    written,        \* how many cursor positions convert wrote in the last callback
    oob_read,       \* whether convert read outside the color image in the last callback
    hist_info,      \* history: payload of the most recent infoCb (Null if none)
    hist_color      \* history: image of the most recent imageCb that did not throw

vars == <<range_max, use_quiet_nan, colorful, g_cam_info, cv_ptr, crashed,
          event, frame, published, written, oob_read, hist_info, hist_color>>

-----------------------------------------------------------------------------
(* Bounds of the model.                                                    *)

\* depth images have 1..MaxDim rows and 1..MaxDim columns
MaxDim == 4
\* color images are 1 x 1 or MaxColorDim x MaxColorDim
MaxColorDim == 3

-----------------------------------------------------------------------------
(* Fixed-point reals.                                                      *)

Scale == 10 * 1000

\* std::numeric_limits<float>::quiet_NaN(): a value apart from every finite one
NaN == -1073741824

IsNaN(a) == a = NaN

IntToFloat(n) == n * Scale

FSub(a, b) == IF IsNaN(a) \/ IsNaN(b) THEN NaN ELSE a - b

\* a * b / Scale, split so that the intermediate product stays small
FMul(a, b) ==
    IF IsNaN(a) \/ IsNaN(b) THEN NaN
    ELSE (a \div Scale) * b + ((a % Scale) * b) \div Scale

FDiv(a, b) == IF IsNaN(a) \/ IsNaN(b) THEN NaN ELSE (a * Scale) \div b

-----------------------------------------------------------------------------
(* Bit operations on non-negative ints (operator&= and operator|= on int). *)

RECURSIVE BitAnd(_, _)
BitAnd(a, b) ==
    IF a = 0 \/ b = 0 THEN 0
    ELSE 2 * BitAnd(a \div 2, b \div 2) + (IF a % 2 = 1 /\ b % 2 = 1 THEN 1 ELSE 0)

RECURSIVE BitOr(_, _)
BitOr(a, b) ==
    IF a = 0 THEN b
    ELSE IF b = 0 THEN a
    ELSE 2 * BitOr(a \div 2, b \div 2) + (IF a % 2 = 1 \/ b % 2 = 1 THEN 1 ELSE 0)

ShiftLeft(a, n) == a * 2^n

-----------------------------------------------------------------------------
(* DepthTraits<T>, depth_traits.hpp: T is "uint16_t" (millimetres) or      *)
(* "float" (metres).                                                       *)

\* 0.001 as a fixed-point real
Milli == Scale \div 1000

toMeters(T, depth) == IF T = "uint16_t" THEN depth * Milli ELSE depth

fromMeters(T, meters) == IF T = "uint16_t" THEN meters \div Milli ELSE meters

valid(T, depth) == IF T = "uint16_t" THEN depth # 0 ELSE ~IsNaN(depth)

\* T(1)
TOne(T) == IF T = "uint16_t" THEN 1 ELSE IntToFloat(1)

\* the conversion of a T to float where `depth` is an operand of a float product
ToFloat(T, depth) == IF T = "uint16_t" THEN IntToFloat(depth) ELSE depth

-----------------------------------------------------------------------------
(* Messages.                                                               *)

Null == [null |-> TRUE]

TYPE_16UC1 == "16UC1"
TYPE_32FC1 == "32FC1"

\* sizeof(T) of the samples of a depth encoding
SizeOf(encoding) ==
    IF encoding = TYPE_16UC1 THEN 2 ELSE IF encoding = TYPE_32FC1 THEN 4 ELSE 1

\* sensor_msgs::msg::Image holding depth: row-major samples, step in bytes
DepthImage(encoding, height, width, background, at, sample) ==
    [encoding |-> encoding, height |-> height, width |-> width,
     step |-> width * SizeOf(encoding),
     data |-> [i \in 1..(height * width) |-> IF i = at THEN sample ELSE background]]

\* sensor_msgs::msg::CameraInfo, reduced to the intrinsics the model reads
CameraInfo(fx, fy, cx, cy) == [fx |-> fx, fy |-> fy, cx |-> cx, cy |-> cy]

NumChannels(encoding) ==
    IF encoding \in {"rgb8", "bgr8"} THEN 3
    ELSE IF encoding \in {"rgba8", "bgra8"} THEN 4
    ELSE 1

\* sensor_msgs::msg::Image holding color: row-major pixels, each a tuple of
\* channel values; every channel of every pixel has a value of its own
ColorImage(encoding, height, width) ==
    [encoding |-> encoding, height |-> height, width |-> width,
     data |-> [i \in 1..(height * width) |->
                 [c \in 1..NumChannels(encoding) |->
                     10 + 50 * (c - 1) + 8 * ((i - 1) \div width) + ((i - 1) % width)]]]

-----------------------------------------------------------------------------
(* cv_bridge::toCvShare(msg, msg->encoding): the cv::Mat type of each      *)
(* encoding; any other encoding throws cv_bridge::Exception.               *)

CV_8UC1 == "CV_8UC1"
CV_8UC3 == "CV_8UC3"
CV_8UC4 == "CV_8UC4"
CV_16UC1 == "CV_16UC1"

KnownColorEncodings == {"mono8", "rgb8", "bgr8", "rgba8", "bgra8", "mono16"}

getCvType(encoding) ==
    IF encoding = "mono8" THEN CV_8UC1
    ELSE IF encoding \in {"rgb8", "bgr8"} THEN CV_8UC3
    ELSE IF encoding \in {"rgba8", "bgra8"} THEN CV_8UC4
    ELSE CV_16UC1

toCvShareThrows(msg) == msg.encoding \notin KnownColorEncodings

toCvShare(msg) ==
    [encoding |-> msg.encoding,
     image |-> [type |-> getCvType(msg.encoding), rows |-> msg.height,
                cols |-> msg.width, data |-> msg.data]]

\* cv::Mat::at<>(v, u) reads inside the matrix
InMat(image, v, u) == v >= 0 /\ v < image.rows /\ u >= 0 /\ u < image.cols

\* the pixel at (v, u) of a matrix, given that it is inside
MatAt(image, v, u) == image.data[v * image.cols + u + 1]

-----------------------------------------------------------------------------
(* convert<T>: the color of one point, lines 109-128.  The result is the   *)
(* int rgb and whether a read fell outside the matrix (at<> does not       *)
(* check; what such a read returns is any byte).                           *)

Bytes == 0..255

\* line 121: the guard of the 4-channel read
ColorInBounds(image, v, u) == image.rows > v /\ image.cols > u

PackColor(cv, v, u) ==
    IF cv = Null THEN [rgb |-> 0, oob |-> FALSE]
    ELSE LET image == cv.image IN
      IF image.type = CV_8UC1 THEN
        \* rgb &= at<uchar>(v, u), rgb being 0
        LET read == IF InMat(image, v, u) THEN {MatAt(image, v, u)[1]} ELSE Bytes
        IN  [rgb |-> CHOOSE r \in {BitAnd(0, b) : b \in read} : TRUE,
             oob |-> ~InMat(image, v, u)]
      ELSE IF image.type = CV_8UC3 THEN
        \* rgb = (int) at<cv::Vec3b>(0, 0)[0]
        [rgb |-> MatAt(image, 0, 0)[1], oob |-> FALSE]
      ELSE IF image.type = CV_8UC3 \/ image.type = CV_8UC4 THEN
        IF ColorInBounds(image, v, u) THEN
          [rgb |-> BitOr(BitOr(BitOr(0, ShiftLeft(MatAt(image, v, u)[3], 16)),
                               ShiftLeft(MatAt(image, v, u)[2], 8)),
                         MatAt(image, v, u)[1]),
           oob |-> FALSE]
        ELSE [rgb |-> 0, oob |-> FALSE]
      ELSE [rgb |-> 0, oob |-> FALSE]

-----------------------------------------------------------------------------
(* convert<T>: one sampled pixel, lines 81-128.                            *)

\* the bits of quiet_NaN() as a float: 0x7FC00000
QuietNaNBits == 2143289344

\* *reinterpret_cast<float*>(&rgb): the float holds the int's bits unchanged
ReinterpretAsFloat(rgb) == rgb

\* lines 88 and 95: *iter_x = *iter_y = *iter_z = *iter_rgb = bad_point
BadPoint == [x |-> NaN, y |-> NaN, z |-> NaN, rgb |-> QuietNaNBits]

\* image_geometry::PinholeCameraModel::fromCameraInfo
fromCameraInfo(info) == [fx |-> info.fx, fy |-> info.fy, cx |-> info.cx, cy |-> info.cy]

\* lines 104-128: fill in XYZ and RGB from a depth that passed the policy
FillPoint(T, depth, u, v, model, cv) ==
    LET center_x == model.cx
        center_y == model.cy
        unit_scaling == toMeters(T, TOne(T))
        constant_x == FDiv(unit_scaling, model.fx)
        constant_y == FDiv(unit_scaling, model.fy)
        packed == PackColor(cv, v, u)
    IN  [pt |-> [x |-> FMul(FMul(FSub(IntToFloat(u), center_x), ToFloat(T, depth)), constant_x),
                 y |-> FMul(FMul(FSub(IntToFloat(v), center_y), ToFloat(T, depth)), constant_y),
                 z |-> toMeters(T, depth),
                 rgb |-> ReinterpretAsFloat(packed.rgb)],
         oob |-> packed.oob]

\* faulty variants of line 85: the range_max test lost; the negation lost
SubstituteInvalid_NoRangeTest(rmax, quiet) == ~quiet

SubstituteInvalid_NoNegation(rmax, quiet) == rmax # 0 /\ quiet

\* line 85: an invalid sample is replaced instead of dropped
SubstituteInvalid(rmax, quiet) == rmax # 0 /\ ~quiet

\* faulty variant of line 93: >= for >
ExceedsMax_Inclusive(depth, depth_max) == depth >= depth_max

\* line 93
ExceedsMax(depth, depth_max) == depth > depth_max

\* faulty variant of line 98: the assignment lost
ClampedDepth_Unclamped(depth, depth_max) == depth

\* line 98
ClampedDepth(depth, depth_max) == depth_max

\* lines 81-128: the loop body at (v, u) on sample `depth`
ConvertPoint(T, depth, u, v, model, rmax, quiet, cv) ==
    IF ~valid(T, depth) THEN
        IF SubstituteInvalid(rmax, quiet)
        THEN FillPoint(T, fromMeters(T, rmax), u, v, model, cv)
        ELSE [pt |-> BadPoint, oob |-> FALSE]
    ELSE IF rmax # 0 THEN
        LET depth_max == fromMeters(T, rmax) IN
        IF ExceedsMax(depth, depth_max) THEN
            IF quiet THEN [pt |-> BadPoint, oob |-> FALSE]
            ELSE FillPoint(T, ClampedDepth(depth, depth_max), u, v, model, cv)
        ELSE FillPoint(T, depth, u, v, model, cv)
    ELSE FillPoint(T, depth, u, v, model, cv)

-----------------------------------------------------------------------------
(* convert<T>: the two loops, lines 77-130.  The four iterators advance    *)
(* together, so the cursor is the number of points written so far; the     *)
(* result is the sequence of writes in cursor order.                       *)

\* the sample type of a supported encoding
SampleType(encoding) == IF encoding = TYPE_16UC1 THEN "uint16_t" ELSE "float"

\* depth_row[u] with depth_row = data + v * row_step
DepthAt(depth_msg, T, v, u) ==
    depth_msg.data[v * (depth_msg.step \div SizeOf(depth_msg.encoding)) + u + 1]

RECURSIVE ConvertRow(_, _, _, _, _, _, _, _, _)
ConvertRow(T, depth_msg, model, rmax, quiet, cv, v, u, writes) ==
    IF u < depth_msg.width
    THEN ConvertRow(T, depth_msg, model, rmax, quiet, cv, v, u + 2,
                    Append(writes, ConvertPoint(T, DepthAt(depth_msg, T, v, u), u, v,
                                                model, rmax, quiet, cv)))
    ELSE writes

RECURSIVE ConvertRows(_, _, _, _, _, _, _, _)
ConvertRows(T, depth_msg, model, rmax, quiet, cv, v, writes) ==
    IF v < depth_msg.height
    THEN ConvertRows(T, depth_msg, model, rmax, quiet, cv, v + 2,
                     ConvertRow(T, depth_msg, model, rmax, quiet, cv, v, 0, writes))
    ELSE writes

convert(T, depth_msg, model, rmax, quiet, cv) ==
    ConvertRows(T, depth_msg, model, rmax, quiet, cv, 0, <<>>)

-----------------------------------------------------------------------------
(* The inputs the callbacks are driven with.                               *)

RangeMaxValues == {0, 2 * Milli, IntToFloat(2)}

\* raw samples: invalid, 2 units, 3 units (millimetres or metres)
DepthSamples(encoding) ==
    IF encoding = TYPE_32FC1 THEN {NaN, IntToFloat(2), IntToFloat(3)} ELSE {0, 2, 3}

DepthEncodings == {TYPE_16UC1, TYPE_32FC1, "8UC1"}

InfoMsgs ==
    {CameraInfo(IntToFloat(1), IntToFloat(2), IntToFloat(1), IntToFloat(0)),
     CameraInfo(IntToFloat(2), IntToFloat(1), IntToFloat(0), IntToFloat(2))}

\* the node is driven with uniform depth frames of the two largest sizes ...
DepthMsgs ==
    {DepthImage(e, h, w, s, 0, s) :
        e \in DepthEncodings, h \in {MaxDim - 1, MaxDim}, w \in {MaxDim - 1, MaxDim},
        s \in {0, 2}} \cup
    {DepthImage(TYPE_32FC1, h, h, s, 0, s) : h \in {MaxDim - 1, MaxDim}, s \in {NaN}}

\* ... and with color frames of two sizes, one of an encoding toCvShare rejects
ImageMsgs ==
    {ColorImage(e, d, d) : e \in {"mono8", "bgra8", "yuv"}, d \in {1, MaxColorDim}}

\* convert alone is driven with every depth frame that is uniform but for one
\* sample, and every color frame of the sizes below
AllDepthMsgs ==
    UNION {{DepthImage(e, h, w, b, i, s) :
                b \in DepthSamples(e), i \in 1..(h * w), s \in DepthSamples(e)} :
           e \in {TYPE_16UC1, TYPE_32FC1}, h \in 1..MaxDim, w \in 1..MaxDim}

AllImageMsgs ==
    {ColorImage(e, d, d) : e \in KnownColorEncodings, d \in {1, MaxColorDim}}

-----------------------------------------------------------------------------
(* Depthimage2Pointcloud2: constructor and callbacks.                      *)

\* lines 47-65: the parameters are read; nothing has been received
Init ==
    /\ range_max \in RangeMaxValues
    /\ use_quiet_nan \in BOOLEAN
    /\ colorful \in BOOLEAN
    /\ g_cam_info = Null
    /\ cv_ptr = Null
    /\ crashed = FALSE
    /\ event = "init"
    /\ frame = <<>>
    /\ published = <<>>
    /\ written = 0
    /\ oob_read = FALSE
    /\ hist_info = Null
    /\ hist_color = Null

\* lines 125-128
infoCb(info) ==
    /\ ~crashed
    /\ g_cam_info' = info
    /\ hist_info' = info
    /\ event' = "info"
    /\ frame' = <<>>
    /\ published' = <<>>
    /\ written' = 0
    /\ oob_read' = FALSE
    /\ UNCHANGED <<range_max, use_quiet_nan, colorful, cv_ptr, crashed, hist_color>>

\* faulty variant of lines 73-79: the catch block resets the stored frame
ImageCbResult_ResetOnThrow(old, msg) == IF toCvShareThrows(msg) THEN Null ELSE toCvShare(msg)

\* lines 73-79: what cv_ptr holds after the try block
ImageCbResult(old, msg) == IF toCvShareThrows(msg) THEN old ELSE toCvShare(msg)

\* lines 68-80; the subscription exists only when colorful (line 56)
imageCb(msg) ==
    /\ ~crashed
    /\ colorful
    /\ cv_ptr' = ImageCbResult(cv_ptr, msg)
    /\ hist_color' = IF toCvShareThrows(msg) THEN hist_color ELSE msg
    /\ event' = "image"
    /\ frame' = <<>>
    /\ published' = <<>>
    /\ written' = 0
    /\ oob_read' = FALSE
    /\ UNCHANGED <<range_max, use_quiet_nan, colorful, g_cam_info, crashed, hist_info>>

\* lines 94-105: the cloud depthCb allocates, height * width zeroed records
ZeroPoint == [x |-> 0, y |-> 0, z |-> 0, rgb |-> 0]

CloudHeight(image) == image.height \div 2

CloudWidth(image) == image.width \div 2

\* the cloud after convert ran on it: the writes that fell inside the buffer
FilledCloud(image, writes) ==
    [height |-> CloudHeight(image), width |-> CloudWidth(image),
     data |-> [k \in 1..(CloudHeight(image) * CloudWidth(image)) |->
                 IF k <= Len(writes) THEN writes[k].pt ELSE ZeroPoint]]

\* convert read outside the color image
ReadOutside(writes) == \E k \in 1..Len(writes) : writes[k].oob

\* convert wrote past the end of the cloud's data or read outside the color image
Undefined(image, writes) ==
    \/ Len(writes) > CloudHeight(image) * CloudWidth(image)
    \/ ReadOutside(writes)

\* lines 88-92 and 116-120: the frame is dropped
Refuse ==
    /\ published' = <<>>
    /\ written' = 0
    /\ oob_read' = FALSE
    /\ crashed' = FALSE

\* lines 94-115 and 122: convert<T> fills the cloud and the cloud is published;
\* where convert's behaviour is undefined the process may die instead
ConvertAndPublish(image, T) ==
    \E writes \in {convert(T, image, fromCameraInfo(g_cam_info), range_max,
                           use_quiet_nan, cv_ptr)} :
        /\ written' = Len(writes)
        /\ oob_read' = ReadOutside(writes)
        /\ \/ /\ published' = <<FilledCloud(image, writes)>>
              /\ crashed' = FALSE
           \/ /\ Undefined(image, writes)
              /\ published' = <<>>
              /\ crashed' = TRUE

\* lines 83-123
depthCb(image) ==
    /\ ~crashed
    /\ event' = "depth"
    /\ frame' = <<image>>
    /\ IF g_cam_info = Null THEN Refuse
       ELSE IF image.encoding = TYPE_16UC1 THEN ConvertAndPublish(image, "uint16_t")
       ELSE IF image.encoding = TYPE_32FC1 THEN ConvertAndPublish(image, "float")
       ELSE Refuse
    /\ UNCHANGED <<range_max, use_quiet_nan, colorful, g_cam_info, cv_ptr,
                   hist_info, hist_color>>

InfoStep == \E info \in InfoMsgs : infoCb(info)

ImageStep == \E msg \in ImageMsgs : imageCb(msg)

DepthStep == \E image \in DepthMsgs : depthCb(image)

\* rclcpp::spin (line 145): a single-threaded executor, one callback at a time
Next == InfoStep \/ ImageStep \/ DepthStep

Spec == Init /\ [][Next]_vars

-----------------------------------------------------------------------------
(* convert on its own: the node has received camera info and possibly a    *)
(* color frame, and is handed one depth frame of a supported encoding.     *)

InitConvert ==
    /\ range_max \in RangeMaxValues
    /\ use_quiet_nan \in BOOLEAN
    /\ hist_info \in InfoMsgs
    /\ g_cam_info = hist_info
    /\ hist_color \in {Null} \cup AllImageMsgs
    /\ cv_ptr = IF hist_color = Null THEN Null ELSE toCvShare(hist_color)
    /\ colorful = (hist_color # Null)
    /\ crashed = FALSE
    /\ event = IF hist_color = Null THEN "info" ELSE "image"
    /\ frame = <<>>
    /\ published = <<>>
    /\ written = 0
    /\ oob_read = FALSE

ConvertStep == frame = <<>> /\ \E image \in AllDepthMsgs : depthCb(image)

NextConvert == ConvertStep

ConvertSpec == InitConvert /\ [][NextConvert]_vars

-----------------------------------------------------------------------------
(* Vocabulary of the properties.                                           *)

\* the depth frame the last depthCb was given, and the cloud it published
Fr == frame[1]
Cloud == published[1]

Supported(encoding) == encoding \in {TYPE_16UC1, TYPE_32FC1}

\* the stride-2 grid of a frame: rows 0, 2, 4, ... and columns 0, 2, 4, ...
SampleRows(image) == (image.height + 1) \div 2
SampleCols(image) == (image.width + 1) \div 2

\* the pixel the k-th step of the loop samples (k counts from 1)
CursorV(image, k) == 2 * ((k - 1) \div SampleCols(image))
CursorU(image, k) == 2 * ((k - 1) % SampleCols(image))

\* the raw depth at pixel (v, u) of a frame
RawAt(image, v, u) == image.data[v * image.width + u + 1]

\* the raw depth the k-th record of the published cloud was computed from
RawOf(k) == RawAt(Fr, CursorV(Fr, k), CursorU(Fr, k))

\* 0 for 16-bit fixed point, NaN for float
InvalidRaw(encoding, raw) ==
    \/ encoding = TYPE_16UC1 /\ raw = 0
    \/ encoding = TYPE_32FC1 /\ raw = NaN

NaNFilled(pt) == pt.x = NaN /\ pt.y = NaN /\ pt.z = NaN /\ pt.rgb = QuietNaNBits

\* x and y of pt are the back-projection of pt.z from pixel (v, u):
\*   x = (u - cx) * z / fx  and  y = (v - cy) * z / fy
BackProjected(pt, v, u, info) ==
    /\ pt.x * info.fx = (IntToFloat(u) - info.cx) * pt.z
    /\ pt.y * info.fy = (IntToFloat(v) - info.cy) * pt.z

Records == 1..Len(Cloud.data)

-----------------------------------------------------------------------------
(* C1: for every depth image of size (H, W) of a supported encoding that   *)
(* depthCb processes after camera info was received, the number of point   *)
(* records the published cloud holds equals ceil(H/2) * ceil(W/2), the     *)
(* number of samples convert visits.                                       *)
C1_PointCount ==
    published # <<>> =>
        /\ Cloud.height * Cloud.width = SampleRows(Fr) * SampleCols(Fr)
        /\ Len(Cloud.data) = written

(* C2: the record at row r, column c of the published cloud is the one     *)
(* computed from depth pixel (2r, 2c), and no record is written at a       *)
(* cursor position outside the cloud's buffer.                             *)
C2_OrderMirrorsGrid ==
    published # <<>> =>
        /\ written <= Len(Cloud.data)
        /\ \A r \in 0..(Cloud.height - 1), c \in 0..(Cloud.width - 1) :
              Cloud.data[r * Cloud.width + c + 1] =
                  ConvertPoint(SampleType(Fr.encoding), RawAt(Fr, 2 * r, 2 * c),
                               2 * c, 2 * r, fromCameraInfo(g_cam_info), range_max,
                               use_quiet_nan, cv_ptr).pt

(* C3: a cloud is published for a depth frame if and only if camera info   *)
(* had been received before it and its encoding is 16UC1 or 32FC1; a       *)
(* refused frame leaves the stored camera info and color frame as they     *)
(* were and the node goes on to the next frame.                            *)
C3_PublishedIffAccepted ==
    event = "depth" =>
        /\ (published # <<>>) <=> (hist_info # Null /\ Supported(Fr.encoding))
        /\ published = <<>> =>
              /\ ~crashed
              /\ g_cam_info = hist_info
              /\ cv_ptr = IF hist_color = Null THEN Null ELSE toCvShare(hist_color)

\* the sample type and the intrinsics the published cloud was computed with
FrT == SampleType(Fr.encoding)

\* the clamping threshold in the frame's native unit
DepthMax == fromMeters(FrT, range_max)

\* a valid raw sample above the clamping threshold
ValidAbove(k) == ~InvalidRaw(Fr.encoding, RawOf(k)) /\ RawOf(k) > DepthMax

(* C4: with range_max = 0 an invalid raw sample (0 for 16-bit, NaN for     *)
(* float) is emitted as a NaN-filled point (x, y, z NaN and the rgb bits   *)
(* those of the quiet NaN), whatever use_quiet_nan is and whether or not a *)
(* color image is supplied.                                                *)
C4_InvalidUnclampedIsNaN ==
    (published # <<>> /\ range_max = 0) =>
        \A k \in Records :
            InvalidRaw(Fr.encoding, RawOf(k)) => NaNFilled(Cloud.data[k])

C4_Witness ==
    /\ published # <<>>
    /\ range_max = 0
    /\ ~use_quiet_nan
    /\ cv_ptr # Null
    /\ \E k \in Records :
          InvalidRaw(Fr.encoding, RawOf(k)) /\ NaNFilled(Cloud.data[k])

(* C5: with range_max # 0 and use_quiet_nan, a valid sample above          *)
(* fromMeters(range_max) is emitted NaN-filled, color image or not, and a  *)
(* valid sample not above it is never emitted NaN-filled.                  *)
C5_QuietNaNAboveRange ==
    (published # <<>> /\ range_max # 0 /\ use_quiet_nan) =>
        \A k \in Records :
            ~InvalidRaw(Fr.encoding, RawOf(k)) =>
                IF RawOf(k) > DepthMax
                THEN NaNFilled(Cloud.data[k])
                ELSE ~NaNFilled(Cloud.data[k])

C5_Witness ==
    /\ published # <<>>
    /\ range_max # 0
    /\ use_quiet_nan
    /\ cv_ptr # Null
    /\ \E k \in Records : ValidAbove(k) /\ NaNFilled(Cloud.data[k])
    /\ \E k \in Records :
          /\ ~InvalidRaw(Fr.encoding, RawOf(k))
          /\ RawOf(k) = DepthMax
          /\ ~NaNFilled(Cloud.data[k])

(* C6: with range_max # 0 and use_quiet_nan false, a valid sample above    *)
(* fromMeters(range_max) is clamped before back-projection: the emitted z  *)
(* is range_max metres and not the raw depth, x and y are back-projected   *)
(* from the clamped depth; and no emitted point has z above range_max.     *)
C6_ClampedToRange ==
    (published # <<>> /\ range_max # 0 /\ ~use_quiet_nan) =>
        \A k \in Records :
            /\ Cloud.data[k].z # NaN
            /\ Cloud.data[k].z <= range_max
            /\ ValidAbove(k) =>
                  /\ Cloud.data[k].z = range_max
                  /\ Cloud.data[k].z = toMeters(FrT, DepthMax)
                  /\ Cloud.data[k].z # toMeters(FrT, RawOf(k))
                  /\ BackProjected(Cloud.data[k], CursorV(Fr, k), CursorU(Fr, k),
                                   g_cam_info)

C6_Witness ==
    /\ published # <<>>
    /\ range_max # 0
    /\ ~use_quiet_nan
    /\ \E k \in Records :
          /\ ValidAbove(k)
          /\ Cloud.data[k].z = range_max
          /\ Cloud.data[k].x # 0
          /\ Cloud.data[k].y # 0

(* C7: with range_max # 0 and use_quiet_nan false, an invalid sample is    *)
(* replaced by fromMeters(range_max) and processed as a valid sample of    *)
(* that depth: the point is not NaN-filled, z is range_max metres, x and y *)
(* are back-projected from it, and the color is the one a valid sample     *)
(* at that pixel gets.                                                     *)
C7_InvalidSubstituted ==
    (published # <<>> /\ range_max # 0 /\ ~use_quiet_nan) =>
        \A k \in Records :
            InvalidRaw(Fr.encoding, RawOf(k)) =>
                /\ ~NaNFilled(Cloud.data[k])
                /\ Cloud.data[k].z = range_max
                /\ BackProjected(Cloud.data[k], CursorV(Fr, k), CursorU(Fr, k),
                                 g_cam_info)
                /\ Cloud.data[k] =
                      ConvertPoint(FrT, DepthMax, CursorU(Fr, k), CursorV(Fr, k),
                                   fromCameraInfo(g_cam_info), range_max,
                                   use_quiet_nan, cv_ptr).pt

C7_Witness ==
    /\ published # <<>>
    /\ range_max # 0
    /\ ~use_quiet_nan
    /\ cv_ptr # Null
    /\ \E k \in Records :
          /\ InvalidRaw(Fr.encoding, RawOf(k))
          /\ Cloud.data[k].z = range_max
          /\ Cloud.data[k].rgb > 0
          /\ Cloud.data[k].rgb # QuietNaNBits

\* the red, green and blue channel of a pixel of a 3- or 4-channel encoding
Red(encoding, px) == IF encoding \in {"rgb8", "rgba8"} THEN px[1] ELSE px[3]
Green(encoding, px) == px[2]
Blue(encoding, px) == IF encoding \in {"rgb8", "rgba8"} THEN px[3] ELSE px[1]

\* the color pixel under the k-th record, given that it is inside the image
ColorPixelOf(k) == MatAt(cv_ptr.image, CursorV(Fr, k), CursorU(Fr, k))

ColorInside(k) == InMat(cv_ptr.image, CursorV(Fr, k), CursorU(Fr, k))

(* C8: for every point that is not NaN-filled, sampled at (u, v) inside a  *)
(* supplied 3- or 4-channel color image, the rgb bits of the record are    *)
(* (R << 16) | (G << 8) | B of the pixel at that same (v, u).              *)
C8_ColorPacking ==
    (published # <<>> /\ cv_ptr # Null) =>
        (cv_ptr.image.type \in {CV_8UC3, CV_8UC4} =>
            \A k \in Records :
                (~NaNFilled(Cloud.data[k]) /\ ColorInside(k)) =>
                    Cloud.data[k].rgb =
                        Red(cv_ptr.encoding, ColorPixelOf(k)) * 65536
                        + Green(cv_ptr.encoding, ColorPixelOf(k)) * 256
                        + Blue(cv_ptr.encoding, ColorPixelOf(k)))

(* C9: for every 1-, 3- or 4-channel color image the color image is never  *)
(* read outside its extents, and a point whose (v, u) is outside them gets *)
(* color 0 while the frame is converted normally.                          *)
C9_ColorBoundsChecked ==
    (event = "depth" /\ cv_ptr # Null) =>
        (cv_ptr.image.type \in {CV_8UC1, CV_8UC3, CV_8UC4} =>
            /\ ~oob_read
            /\ ~crashed
            /\ published # <<>> =>
                  \A k \in Records :
                      (~NaNFilled(Cloud.data[k]) /\ ~ColorInside(k)) =>
                          Cloud.data[k].rgb = 0)

(* C10: the cloud published for a depth frame is a function of that frame, *)
(* the parameters, the camera info of the most recent infoCb and the color *)
(* frame of the most recent imageCb that did not throw (none if there was  *)
(* none); the stored camera info and color frame are always those two, so  *)
(* a throwing imageCb and depthCb leave them as they were.                 *)
C10_DependsOnLatestOnly ==
    /\ g_cam_info = hist_info
    /\ cv_ptr = IF hist_color = Null THEN Null
                ELSE [encoding |-> hist_color.encoding,
                      image |-> [type |-> getCvType(hist_color.encoding),
                                 rows |-> hist_color.height,
                                 cols |-> hist_color.width,
                                 data |-> hist_color.data]]
    /\ published # <<>> =>
          /\ event = "depth"
          /\ hist_info # Null
          /\ Cloud = FilledCloud(Fr,
                        convert(FrT, Fr, fromCameraInfo(hist_info), range_max,
                                use_quiet_nan,
                                IF hist_color = Null THEN Null ELSE toCvShare(hist_color)))

C10_Witness ==
    /\ published # <<>>
    /\ hist_color # Null
    /\ \E k \in Records : Cloud.data[k].rgb > 0 /\ Cloud.data[k].rgb # QuietNaNBits

====
